---- MODULE Spec2Model ----
(***************************************************************************)
(* Model of the sanhedrin ensemble-size core: effective diversity,         *)
(* collusion risk, the L_total search of optimize_ensemble_size, the       *)
(* circular block bootstrap test and the caller correlation matrix.        *)
(*                                                                         *)
(* Python floats are modelled as fixed-point numbers with three decimal    *)
(* digits (1.0 is ONE = 1000); a product or quotient is truncated to that  *)
(* grid.  np.exp and np.log are modelled by tables on that grid.  A call   *)
(* that raises is modelled by a result whose err field names the           *)
(* exception; a nan p-value by the flag p_nan of the result.               *)
(***************************************************************************)
EXTENDS Integers, Sequences, FiniteSets, TLC

VARIABLES op, args, pc, loc, ret

vars == <<op, args, pc, loc, ret>>

(* ------------------------------ bounds --------------------------------- *)

\* largest ensemble size M / search bound M_max drawn as an input
MaxM == 4
\* largest node count of an interaction graph drawn as an input
MaxNodes == 3
\* largest M of a graph-free effective_diversity call
MaxPlainM == 50
\* longest series handed to the bootstrap
MaxLen == 3
\* largest n_bootstrap
MaxBoot == 2
\* largest number of callers (VCF files) of compute_correlation_matrix
MaxCallers == 3
\* largest correlation matrix handed to effective_diversity_from_correlation
MaxDim == 2

(* --------------------------- fixed-point floats ------------------------ *)

ONE == 10 * 10 * 10

Mul(a, b) == (a * b) \div ONE

Div(a, b) == (a * ONE) \div b

Max(a, b) == IF b > a THEN b ELSE a

Min(a, b) == IF b < a THEN b ELSE a

Ok(v) == [err |-> "none", v |-> v]

Raise(e) == [err |-> e, v |-> 0]

IsOk(r) == r.err = "none"

RECURSIVE SumSeq(_)
SumSeq(s) == IF Len(s) = 0 THEN 0 ELSE Head(s) + SumSeq(Tail(s))

\* np.exp(-x) for x >= 0, tabulated in steps of 0.1; below 0.001 past the table
ExpTable ==
  << 1000, 905, 819, 741, 670, 607, 549, 497, 449, 407, 368, 333, 301, 273,
     247, 223, 202, 183, 165, 150, 135, 122, 111, 100, 91, 82, 74, 67, 61, 55,
     50, 45, 41, 37, 33, 30, 27, 25, 22, 20, 18, 17, 15, 14, 12, 11, 10, 9, 8,
     7, 7, 6, 6, 5, 5, 4, 4, 3, 3, 3, 2, 2, 2, 2, 2, 2, 1, 1, 1, 1, 1 >>

ExpNeg(x) ==
  LET k == (x * 10) \div ONE
  IN  IF k + 1 <= Len(ExpTable) THEN ExpTable[k + 1] ELSE 0

\* np.log(n) for an integer n >= 1
LogTable ==
  << 0, 693, 1099, 1386, 1609, 1792, 1946, 2079, 2197, 2303, 2398, 2485,
     2565, 2639, 2708, 2773, 2833 >>

Log(n) == LogTable[n]

\* floor of the square root of x/ONE, on the grid
RECURSIVE SqrtBetween(_, _, _)
SqrtBetween(x, lo, hi) ==
  IF lo >= hi THEN lo
  ELSE LET mid == (lo + hi + 1) \div 2
       IN  IF mid * mid <= x THEN SqrtBetween(x, mid, hi)
           ELSE SqrtBetween(x, lo, mid - 1)

Sqrt(x) == SqrtBetween(x * ONE, 0, 40 * ONE)

RECURSIVE IntPow(_, _)
IntPow(b, n) == IF n = 0 THEN ONE ELSE Mul(b, IntPow(b, n - 1))

\* b ** g for b >= 0 and an exponent g that is a multiple of 0.5
Pow(b, g) ==
  LET h    == IF g < 0 THEN 0 - g ELSE g
      base == IntPow(b, h \div ONE)
      pos  == IF h % ONE = 0 THEN base ELSE Mul(base, Sqrt(b))
  IN  IF g >= 0 THEN Ok(pos)
      ELSE IF b = 0 THEN Raise("ZeroDivisionError")
      ELSE Ok(Div(ONE, pos))

(* ----------------------------- configuration --------------------------- *)

SimConfig ==
  [ M_max |-> 15, M_min |-> 3,
    alpha_edge |-> 700, alpha_clust |-> 300,
    delta_crit |-> 600, T_stab |-> 5000,
    S_min |-> 200, gamma_stakes |-> 1500,
    c_inf |-> 1000, c_synth |-> 500, mu_cost |-> 50,
    nu_trust |-> 100, sigma_trust |-> 3000, lambda_coll |-> 1000 ]

(* --------------------------- interaction graphs ------------------------ *)

\* an undirected simple graph: nodes 1..n, edges as two-element sets
Pairs(n) == { {i, j} : i \in 1..n, j \in 1..n } \ { {i} : i \in 1..n }

GraphsOn(n) == { [n |-> n, E |-> e] : e \in SUBSET Pairs(n) }

Graphs == UNION { GraphsOn(n) : n \in 0..MaxNodes }

number_of_edges(G) == Cardinality(G.E)

Neighbors(G, v) == { w \in 1..G.n : {v, w} \in G.E }

\* nx.clustering of one node: triangles through v over possible triangles
NodeClustering(G, v) ==
  LET nb  == Neighbors(G, v)
      d   == Cardinality(nb)
      tri == Cardinality({ e \in G.E : e \subseteq nb })
  IN  IF d < 2 THEN 0 ELSE (2 * tri * ONE) \div (d * (d - 1))

RECURSIVE SumClustering(_, _)
SumClustering(G, k) ==
  IF k = 0 THEN 0 ELSE NodeClustering(G, k) + SumClustering(G, k - 1)

\* nx.average_clustering: the mean over the nodes; raises on a graph with no node
average_clustering(G) ==
  IF G.n = 0 THEN Raise("ZeroDivisionError")
  ELSE Ok(SumClustering(G, G.n) \div G.n)

(* ------------------------------- diversity ----------------------------- *)

\* the discount without its floor
topology_discount_NoFloor(G, M) ==
  IF M <= 1 THEN ONE
  ELSE ONE - (number_of_edges(G) * 2 * ONE) \div (M * (M - 1))

\* max_edges = M * (M - 1) / 2 is kept doubled, so that it stays an integer
topology_discount(G, M) ==
  IF M <= 1 THEN ONE
  ELSE LET max_edges2 == M * (M - 1)
           density    == IF max_edges2 > 0
                         THEN (number_of_edges(G) * 2 * ONE) \div max_edges2
                         ELSE 0
       IN  Max(ONE \div 100, ONE - density)

\* the diversity without its floor
effective_diversity_NoFloor(M, rho_bar, Gopt) ==
  Mul(M * (ONE - rho_bar),
      IF Len(Gopt) > 0 THEN topology_discount(Gopt[1], M) ELSE ONE)

\* an optional graph is a sequence: <<>> is None, <<G>> is G
effective_diversity(M, rho_bar, Gopt) ==
  LET phi == IF Len(Gopt) > 0 THEN topology_discount(Gopt[1], M) ELSE ONE
  IN  Max(ONE \div 100, Mul(M * (ONE - rho_bar), phi))

RECURSIVE SumMatrix(_)
SumMatrix(Sigma) ==
  IF Len(Sigma) = 0 THEN 0 ELSE SumSeq(Head(Sigma)) + SumMatrix(Tail(Sigma))

\* total_corr < 1e-12 is total_corr <= 0 on the grid
effective_diversity_from_correlation(Sigma, Gopt) ==
  LET M          == Len(Sigma)
      total_corr == SumMatrix(Sigma)
  IN  IF total_corr < 1 THEN M * ONE
      ELSE LET D   == (M * M * ONE * ONE) \div total_corr
               phi == IF Len(Gopt) > 0 THEN topology_discount(Gopt[1], M) ELSE ONE
           IN  Max(ONE \div 100, Mul(D, phi))

(* ----------------------------- collusion risk -------------------------- *)

f_topology(G, M, cfg) ==
  IF M <= 1 THEN 0
  ELSE LET max_edges2   == M * (M - 1)
           edge_density == IF max_edges2 > 0
                           THEN (number_of_edges(G) * 2 * ONE) \div max_edges2
                           ELSE 0
           c            == average_clustering(G)
           clustering   == IF IsOk(c) THEN c.v ELSE 0
       IN  Min(ONE, Mul(cfg.alpha_edge, edge_density)
                      + Mul(cfg.alpha_clust, clustering))

f_repetition(T, delta, cfg) ==
  IF delta < cfg.delta_crit THEN Ok(0)
  ELSE IF ONE - cfg.delta_crit = 0 THEN Raise("ZeroDivisionError")
  ELSE LET q       == Div(delta - cfg.delta_crit, ONE - cfg.delta_crit)
           g_delta == Mul(q, q)
       IN  IF cfg.T_stab = 0 THEN Raise("ZeroDivisionError")
           ELSE Ok(Mul(g_delta, ONE - ExpNeg(Div(T * ONE, cfg.T_stab))))

f_stakes(S, cfg) ==
  IF S < cfg.S_min THEN Ok(0)
  ELSE Pow(S - cfg.S_min, cfg.gamma_stakes)

compute_collusion_risk(M, G, T, delta, S, cfg) ==
  LET ft == f_topology(G, M, cfg)
      fr == f_repetition(T, delta, cfg)
      fs == f_stakes(S, cfg)
  IN  IF ~IsOk(fr) THEN fr
      ELSE IF ~IsOk(fs) THEN fs
      ELSE Ok(Mul(Mul(ft, fr.v), fs.v))

(* ------------------------------- optimizer ----------------------------- *)

L_error(M, sigma2, rho_bar, G) ==
  LET D == effective_diversity(M, rho_bar, <<G>>)
  IN  Div(sigma2, D)

L_cost(M, cfg) ==
  Mul(cfg.mu_cost, M * cfg.c_inf + Mul(cfg.c_synth * M, Log(M + 1)))

L_trust(M, M_target, cfg) ==
  LET d == M - M_target
  IN  IF cfg.sigma_trust = 0 THEN Raise("ZeroDivisionError")
      ELSE Ok(Mul(cfg.nu_trust,
                  ExpNeg(Div(d * d * ONE, 2 * Mul(cfg.sigma_trust, cfg.sigma_trust)))))

L_coll(M, G, T, delta, S, cfg) ==
  LET r == compute_collusion_risk(M, G, T, delta, S, cfg)
  IN  IF IsOk(r) THEN Ok(Mul(cfg.lambda_coll, r.v)) ELSE r

\* int() of a non-negative float
ToInt(x) == x \div ONE

\* line 24: M_target from the reliability signal E and the stakes signal S
MTarget(a) ==
  a.cfg.M_min + ToInt(Div(4 * a.E, ONE - a.rho_bar + ONE \div 100))
              + ToInt(Mul(4 * a.S, ONE + a.E))

\* line 27: nx.erdos_renyi_graph(M, min(p, 0.99), seed=42).  No edge for p <= 0;
\* otherwise the seeded generator fixes one graph on M nodes, which the model
\* does not know: any of them
erdos_renyi_graph(M, p) ==
  IF Min(p, ONE - ONE \div 100) <= 0 THEN { [n |-> M, E |-> {}] }
  ELSE GraphsOn(M)

\* line 28: L_total of candidate M on graph G
LTotal(M, G, Mt, a) ==
  LET t == L_trust(M, Mt, a.cfg)
      c == L_coll(M, G, a.T, a.delta, a.S, a.cfg)
  IN  IF ~IsOk(t) THEN t
      ELSE IF ~IsOk(c) THEN c
      ELSE Ok(L_error(M, a.sigma2, a.rho_bar, G) + L_cost(M, a.cfg) - t.v + c.v)

\* the update with <= for <: an equal loss replaces the minimizer
TrackBest_OnTie(l, M, loss) ==
  IF l.best_inf \/ loss <= l.best_loss
  THEN [l EXCEPT !.best_inf = FALSE, !.best_loss = loss, !.best_M = M]
  ELSE l

\* lines 29-31: the minimizer kept so far, replaced on a strictly smaller loss
TrackBest(l, M, loss) ==
  IF l.best_inf \/ loss < l.best_loss
  THEN [l EXCEPT !.best_inf = FALSE, !.best_loss = loss, !.best_M = M]
  ELSE l

\* lines 32-33: odd enforcement, capped at M_max
EnforceOdd(best_M, enforce_odd, cfg) ==
  IF enforce_odd /\ best_M % 2 = 0 THEN Min(best_M + 1, cfg.M_max) ELSE best_M

\* configurations of the search: every pair of bounds in 1..MaxM, with the
\* default cost and trust weights (k = 1) or none (k = 0)
OptConfig(lo, hi, k) ==
  [SimConfig EXCEPT !.M_min = lo, !.M_max = hi,
                    !.mu_cost = k * SimConfig.mu_cost,
                    !.nu_trust = k * SimConfig.nu_trust]

\* the default arguments of the call, on the default configuration with bounds
\* lo..hi; besides them the all-zero loss (k = 0, sigma2 = 0) and p = 0.5
OptArgs ==
  { [ E |-> ONE \div 2, S |-> ONE \div 2, rho_bar |-> 3 * (ONE \div 10),
      p |-> v.p, T |-> 10, delta |-> 7 * (ONE \div 10),
      cfg |-> OptConfig(lo, hi, v.k), sigma2 |-> v.k * ONE, enforce_odd |-> odd ] :
      lo \in 1..MaxM, hi \in 1..MaxM, odd \in BOOLEAN,
      v \in { [k |-> 0, p |-> 0], [k |-> 1, p |-> 0], [k |-> 1, p |-> ONE \div 2] } }

\* lines 21-25: entry, M_target and the initial best
Call_optimize_ensemble_size ==
  /\ pc = "idle"
  /\ \E a \in OptArgs :
       /\ op' = "optimize_ensemble_size"
       /\ args' = a
       /\ loc' = [ M |-> a.cfg.M_min, M_target |-> MTarget(a),
                   best_M |-> a.cfg.M_min, best_inf |-> TRUE, best_loss |-> 0,
                   seen |-> <<>> ]
  /\ pc' = "search"
  /\ UNCHANGED ret

\* lines 26-31: one iteration of the search loop; seen records the candidates
\* evaluated so far with their loss
SearchStep ==
  /\ pc = "search"
  /\ loc.M <= args.cfg.M_max
  /\ \E G \in erdos_renyi_graph(loc.M, args.p) :
       LET loss == LTotal(loc.M, G, loc.M_target, args)
       IN  IF IsOk(loss)
           THEN /\ loc' = [ TrackBest(loc, loc.M, loss.v) EXCEPT
                              !.M = loc.M + 1,
                              !.seen = Append(loc.seen, <<loc.M, loss.v>>) ]
                /\ pc' = "search"
                /\ UNCHANGED ret
           ELSE /\ ret' = loss
                /\ pc' = "done"
                /\ UNCHANGED loc
  /\ UNCHANGED <<op, args>>

\* lines 32-34: the loop is over; odd enforcement and return
SearchReturn ==
  /\ pc = "search"
  /\ loc.M > args.cfg.M_max
  /\ ret' = Ok(EnforceOdd(loc.best_M, args.enforce_odd, args.cfg))
  /\ pc' = "done"
  /\ UNCHANGED <<op, args, loc>>

(* ------------------------- pure calls of the core ---------------------- *)

\* the complete graph on the default M_max nodes, and the same less one edge
DenseGraphs ==
  { [n |-> SimConfig.M_max, E |-> Pairs(SimConfig.M_max) \ d] :
      d \in { {}, { {1, 2} } } }

Call_topology_discount ==
  /\ pc = "idle"
  /\ \E G \in Graphs \cup DenseGraphs :
       \E M \in (0..MaxM) \cup {G.n} :
         /\ args' = [G |-> G, M |-> M]
         /\ ret' = Ok(topology_discount(G, M))
  /\ op' = "topology_discount"
  /\ pc' = "done"
  /\ UNCHANGED loc

RhoBars == { 4 * k : k \in 0..249 } \cup { ONE - 1, ONE, ONE + ONE \div 2, 0 - ONE \div 2 }

Call_effective_diversity ==
  /\ pc = "idle"
  /\ \/ \E M \in 0..MaxPlainM, rho_bar \in RhoBars :
          /\ args' = [M |-> M, rho_bar |-> rho_bar, G |-> <<>>]
          /\ ret' = Ok(effective_diversity(M, rho_bar, <<>>))
     \/ \E M \in 0..MaxM, rho_bar \in {0, 3 * (ONE \div 10), ONE - 1}, G \in Graphs :
          /\ args' = [M |-> M, rho_bar |-> rho_bar, G |-> <<G>>]
          /\ ret' = Ok(effective_diversity(M, rho_bar, <<G>>))
  /\ op' = "effective_diversity"
  /\ pc' = "done"
  /\ UNCHANGED loc

\* square matrices of size 0..MaxDim
Matrices ==
  UNION { [1..n -> [1..n -> {0 - ONE, 0, ONE}]] : n \in 0..MaxDim }

Call_effective_diversity_from_correlation ==
  /\ pc = "idle"
  /\ \E Sigma \in Matrices :
       \E Gopt \in { <<>>, <<[n |-> Len(Sigma), E |-> {}]>>,
                     <<[n |-> Len(Sigma), E |-> Pairs(Len(Sigma))]>> } :
         /\ args' = [Sigma |-> Sigma, G |-> Gopt]
         /\ ret' = Ok(effective_diversity_from_correlation(Sigma, Gopt))
  /\ op' = "effective_diversity_from_correlation"
  /\ pc' = "done"
  /\ UNCHANGED loc

\* configurations of the risk model: the defaults, and one field changed
RiskConfigs ==
  { SimConfig,
    [SimConfig EXCEPT !.delta_crit = ONE],
    [SimConfig EXCEPT !.T_stab = 0],
    [SimConfig EXCEPT !.gamma_stakes = 0 - ONE],
    [SimConfig EXCEPT !.alpha_edge = 0 - SimConfig.alpha_edge] }

Call_compute_collusion_risk ==
  /\ pc = "idle"
  /\ \E M \in 0..MaxM, G \in Graphs, T \in {0, 10},
        delta \in {ONE \div 2, 7 * (ONE \div 10), ONE},
        S \in {ONE \div 10, ONE \div 5, ONE \div 2, ONE, 3 * ONE},
        cfg \in RiskConfigs :
       /\ args' = [M |-> M, G |-> G, T |-> T, delta |-> delta, S |-> S, cfg |-> cfg]
       /\ ret' = compute_collusion_risk(M, G, T, delta, S, cfg)
  /\ op' = "compute_collusion_risk"
  /\ pc' = "done"
  /\ UNCHANGED loc

(* -------------------------------- bootstrap ---------------------------- *)

\* the largest r with r*r*r <= T: int(T ** (1 / 3))
Cbrt(T) == CHOOSE r \in 0..T : r * r * r <= T /\ (r + 1) * (r + 1) * (r + 1) > T

\* lines 12-23.  The optional arch procedure is taken as absent (HAS_ARCH false):
\* past ten observations the cube-root fallback decides
optimal_block_length(series) ==
  LET T == Len(series)
  IN  IF T < 10 THEN Max(1, T \div 3) ELSE Max(1, Cbrt(T))

\* np.mean of a non-empty sequence
Mean(s) == SumSeq(s) \div Len(s)

\* np.var of a non-empty sequence
Var(s) == LET m == Mean(s) IN Mean([k \in 1..Len(s) |-> Mul(s[k] - m, s[k] - m)])

\* line 32: the blocks starting at starts, wrapped around, cut to length T
Resampled(series, starts, bl) ==
  LET T == Len(series)
  IN  [k \in 1..T |->
         series[((starts[((k - 1) \div bl) + 1] + ((k - 1) % bl)) % T) + 1]]

\* line 33: the mean for 'mean', the variance for any other selector
Statistic(sample, statistic) ==
  IF statistic = "mean" THEN Mean(sample) ELSE Var(sample)

\* lines 26-29 of circular_block_bootstrap: T, bl, n_blocks and the empty results;
\* T / bl raises for an empty series
BootstrapSetup(series, block_length, n_bootstrap, statistic) ==
  LET T  == Len(series)
      bl == Min(block_length, T)
  IN  IF bl = 0 THEN Raise("ZeroDivisionError")
      ELSE Ok([ series |-> series, bl |-> bl, n_blocks |-> (T + bl - 1) \div bl,
                n_bootstrap |-> n_bootstrap, statistic |-> statistic,
                results |-> <<>> ])

\* line 38: the series re-centred on null_value
Centered(series, null_value) ==
  IF Len(series) = 0 THEN <<>>
  ELSE [k \in 1..Len(series) |-> series[k] - Mean(series) + null_value]

\* lines 40-41: the fraction of results >= observed_stat (nan of no result: a
\* comparison with nan is false), and the rejection
PValue(results, observed_stat, alpha) ==
  LET n    == Len(results)
      hits == Cardinality({ k \in 1..n : results[k] >= observed_stat })
  IN  IF n = 0 THEN [reject_null |-> FALSE, p_nan |-> TRUE, p_value |-> 0]
      ELSE LET p == (hits * ONE) \div n
           IN  [reject_null |-> p < alpha, p_nan |-> FALSE, p_value |-> p]

SeriesSet == UNION { [1..n -> {0, 3 * ONE}] : n \in 0..MaxLen }

BootArgs ==
  [ observed_stat : {0, ONE}, series : SeriesSet, null_value : {0, ONE},
    n_bootstrap : 0..MaxBoot, alpha : {ONE \div 20, 6 * (ONE \div 10)} ]

\* lines 36-39: block length, re-centring and the entry of the bootstrap
Call_bootstrap_one_sided_test ==
  /\ pc = "idle"
  /\ \E a \in BootArgs :
       LET bl == optimal_block_length(a.series)
           st == BootstrapSetup(Centered(a.series, a.null_value), bl,
                                a.n_bootstrap, "mean")
       IN  /\ args' = a
           /\ IF IsOk(st)
              THEN loc' = st.v /\ pc' = "resample" /\ UNCHANGED ret
              ELSE ret' = st /\ pc' = "done" /\ UNCHANGED loc
  /\ op' = "bootstrap_one_sided_test"

Call_circular_block_bootstrap ==
  /\ pc = "idle"
  /\ \E series \in SeriesSet, block_length \in 1..MaxLen, n_bootstrap \in 0..MaxBoot,
        statistic \in {"mean", "var", "median"} :
       LET st == BootstrapSetup(series, block_length, n_bootstrap, statistic)
       IN  /\ args' = [ series |-> series, block_length |-> block_length,
                        n_bootstrap |-> n_bootstrap, statistic |-> statistic ]
           /\ IF IsOk(st)
              THEN loc' = st.v /\ pc' = "resample" /\ UNCHANGED ret
              ELSE ret' = st /\ pc' = "done" /\ UNCHANGED loc
  /\ op' = "circular_block_bootstrap"

\* lines 30-33: one resample, for any start indices np.random.randint may draw
Resample ==
  /\ pc = "resample"
  /\ Len(loc.results) < loc.n_bootstrap
  /\ \E starts \in [1..loc.n_blocks -> 0..(Len(loc.series) - 1)] :
       loc' = [loc EXCEPT !.results =
                 Append(@, Statistic(Resampled(loc.series, starts, loc.bl),
                                     loc.statistic))]
  /\ UNCHANGED <<op, args, pc, ret>>

\* line 34
Return_circular_block_bootstrap ==
  /\ pc = "resample"
  /\ op = "circular_block_bootstrap"
  /\ Len(loc.results) = loc.n_bootstrap
  /\ ret' = Ok(loc.results)
  /\ pc' = "done"
  /\ UNCHANGED <<op, args, loc>>

\* lines 40-41
Return_bootstrap_one_sided_test ==
  /\ pc = "resample"
  /\ op = "bootstrap_one_sided_test"
  /\ Len(loc.results) = loc.n_bootstrap
  /\ ret' = Ok(PValue(loc.results, args.observed_stat, args.alpha))
  /\ pc' = "done"
  /\ UNCHANGED <<op, args, loc>>

(* -------------------------- caller correlation ------------------------- *)

\* a VCF record as cyvcf2 shows it: FILTER "None" on PASS, QUAL NoQual if absent
NoQual == 0 - 1

VcfRecord(pos, alts, filter, qual) ==
  [ CHROM |-> "chr1", POS |-> pos, REF |-> "A", ALT |-> alts,
    FILTER |-> filter, QUAL |-> qual ]

VcfFiles ==
  { {},
    { VcfRecord(1, {"C"}, "None", 50), VcfRecord(2, {"G", "T"}, "None", 10) },
    { VcfRecord(1, {"C"}, "LowQual", 50), VcfRecord(3, {"T"}, "None", NoQual) } }

load_variant_positions(vcf, min_qual, pass_only, HAS_CYVCF2) ==
  IF ~HAS_CYVCF2 THEN Raise("ImportError")
  ELSE LET kept == { v \in vcf :
                       /\ ~(pass_only /\ v.FILTER # "None")
                       /\ ~(v.QUAL # NoQual /\ v.QUAL < min_qual) }
       IN  Ok(UNION { { <<v.CHROM, v.POS, v.REF, alt>> : alt \in v.ALT } : v \in kept })

jaccard_similarity(set_a, set_b) ==
  LET intersection == Cardinality(set_a \cap set_b)
      union        == Cardinality(set_a \cup set_b)
  IN  IF union > 0 THEN (intersection * ONE) \div union ELSE 0

RECURSIVE Sorted(_)
Sorted(S) ==
  IF S = {} THEN <<>>
  ELSE LET m == CHOOSE x \in S : \A y \in S : x <= y
       IN  <<m>> \o Sorted(S \ {m})

\* lines 70-93: the call sets are loaded first; the selector is looked at only
\* inside the loop over the pairs i < j
compute_correlation_matrix(vcf_paths, min_qual, pass_only, method, HAS_CYVCF2) ==
  LET caller_names == Sorted(DOMAIN vcf_paths)
      M            == Len(caller_names)
      call_sets    == [name \in DOMAIN vcf_paths |->
                         load_variant_positions(vcf_paths[name], min_qual,
                                                pass_only, HAS_CYVCF2)]
  IN  IF M > 0 /\ ~HAS_CYVCF2 THEN Raise("ImportError")
      ELSE IF M >= 2 /\ method # "jaccard" THEN Raise("ValueError")
      ELSE Ok([ rho |-> [i \in 1..M |-> [j \in 1..M |->
                           IF i = j THEN ONE
                           ELSE jaccard_similarity(call_sets[caller_names[i]].v,
                                                   call_sets[caller_names[j]].v)]],
                caller_names |-> caller_names ])

VcfPaths == UNION { [D -> VcfFiles] : D \in SUBSET (1..MaxCallers) }

Call_compute_correlation_matrix ==
  /\ pc = "idle"
  /\ \E vcf_paths \in VcfPaths, min_qual \in {0, 20}, pass_only \in BOOLEAN,
        method \in {"jaccard", "kappa", "cosine"}, HAS_CYVCF2 \in BOOLEAN :
       /\ args' = [ vcf_paths |-> vcf_paths, min_qual |-> min_qual,
                    pass_only |-> pass_only, method |-> method,
                    HAS_CYVCF2 |-> HAS_CYVCF2 ]
       /\ ret' = compute_correlation_matrix(vcf_paths, min_qual, pass_only,
                                            method, HAS_CYVCF2)
  /\ op' = "compute_correlation_matrix"
  /\ pc' = "done"
  /\ UNCHANGED loc

Init ==
  /\ op = "none"
  /\ args = <<>>
  /\ pc = "idle"
  /\ loc = <<>>
  /\ ret = Ok(0)

NextSearch ==
  \/ Call_optimize_ensemble_size
  \/ SearchStep
  \/ SearchReturn

NextCore ==
  \/ Call_topology_discount
  \/ Call_effective_diversity
  \/ Call_effective_diversity_from_correlation
  \/ Call_compute_collusion_risk

NextBoot ==
  \/ Call_bootstrap_one_sided_test
  \/ Call_circular_block_bootstrap
  \/ Resample
  \/ Return_circular_block_bootstrap
  \/ Return_bootstrap_one_sided_test
  \/ Call_compute_correlation_matrix

Next == NextSearch \/ NextCore \/ NextBoot

\* every operation of the core
Spec == Init /\ [][Next]_vars

\* the search of optimize_ensemble_size
SpecSearch == Init /\ [][NextSearch]_vars

\* the pure operations of the diversity and risk models
SpecCore == Init /\ [][NextCore]_vars

\* the bootstrap tester and the caller correlation matrix
SpecBoot == Init /\ [][NextBoot]_vars

(* ================================ claims ============================== *)

Done(name) == op = name /\ pc = "done"

(* C1: with enforce_odd the returned M* lies in [M_min, M_max] and is odd,    *)
(* the only even result being M_min = M_max even.  Stated for M_min <= M_max. *)
C1_OddWithinBounds ==
  (Done("optimize_ensemble_size") /\ IsOk(ret) /\ args.enforce_odd
     /\ args.cfg.M_min <= args.cfg.M_max)
  => /\ args.cfg.M_min <= ret.v
     /\ ret.v <= args.cfg.M_max
     /\ \/ ret.v % 2 = 1
        \/ args.cfg.M_min = args.cfg.M_max /\ ret.v = args.cfg.M_min

(* C2: compute_collusion_risk returns 0 (and does not fail) whenever          *)
(* delta < delta_crit, or S < S_min, or M <= 1.                               *)
C2_ZeroRisk ==
  (Done("compute_collusion_risk")
     /\ \/ args.delta < args.cfg.delta_crit
        \/ args.S < args.cfg.S_min
        \/ args.M <= 1)
  => IsOk(ret) /\ ret.v = 0

(* C3: the value compute_collusion_risk returns lies in [0,1], and so does    *)
(* its topology factor.  Stated for the default configuration.                *)
C3_RiskInUnitInterval ==
  (Done("compute_collusion_risk") /\ IsOk(ret) /\ args.cfg = SimConfig)
  => /\ 0 <= ret.v /\ ret.v <= ONE
     /\ 0 <= f_topology(args.G, args.M, args.cfg)
     /\ f_topology(args.G, args.M, args.cfg) <= ONE

(* C4: both diversity entry points return at least 0.01.                      *)
C4_DiversityFloor ==
  (Done("effective_diversity") \/ Done("effective_diversity_from_correlation"))
  => ret.v >= ONE \div 100

\* the graph-free call of effective_diversity with M in [2,50], rho_bar in [0,1)
C5_Case ==
  /\ Done("effective_diversity")
  /\ Len(args.G) = 0
  /\ args.M \in 2..50
  /\ 0 <= args.rho_bar /\ args.rho_bar < ONE

(* C5 as claimed: effective_diversity(M, rho_bar, None) equals M*(1-rho_bar)  *)
(* for every M in [2,50] and rho_bar in [0,1).                                *)
C5_ExactProduct ==
  C5_Case => ret.v = args.M * (ONE - args.rho_bar)

(* C5 amended: effective_diversity(M, rho_bar, None) equals M*(1-rho_bar)     *)
(* when that product is at least 0.01, and 0.01 otherwise.                    *)
C5_ProductAboveFloor ==
  C5_Case =>
    LET product == args.M * (ONE - args.rho_bar)
    IN  ret.v = IF product >= ONE \div 100 THEN product ELSE ONE \div 100

C5_Witness ==
  C5_Case /\ args.M = 50 /\ args.rho_bar = 3 * (ONE \div 10) /\ ret.v = 35 * ONE

\* G with one more edge between two of its nodes
AddEdge(G, e) == [G EXCEPT !.E = @ \cup {e}]

\* |E| / (M choose 2) on the grid
EdgeDensity(G, M) == (Cardinality(G.E) * ONE) \div ((M * (M - 1)) \div 2)

(* C6 as claimed: 1.0 for M <= 1; for M > 1 max(0.01, 1 - |E|/(M choose 2)),  *)
(* never below 0.01, and strictly smaller after any edge is added.  Stated    *)
(* for a graph on the M members.                                              *)
C6_StrictlyDecreasing ==
  (Done("topology_discount") /\ args.G.n = args.M)
  => /\ args.M <= 1 => ret.v = ONE
     /\ args.M > 1 =>
          /\ ret.v = Max(ONE \div 100, ONE - EdgeDensity(args.G, args.M))
          /\ ret.v >= ONE \div 100
          /\ \A e \in Pairs(args.G.n) \ args.G.E :
               topology_discount(AddEdge(args.G, e), args.M) < ret.v

(* C6 amended: 1.0 for M <= 1; for M > 1 max(0.01, 1 - |E|/(M choose 2)),     *)
(* never below 0.01; adding an edge never raises the discount and lowers it   *)
(* strictly whenever the discount is above the floor 0.01.                    *)
C6_DecreasingAboveFloor ==
  Done("topology_discount")
  => /\ args.M <= 1 => ret.v = ONE
     /\ args.M > 1 =>
          /\ ret.v = Max(ONE \div 100, ONE - EdgeDensity(args.G, args.M))
          /\ ret.v >= ONE \div 100
          /\ \A e \in Pairs(args.G.n) \ args.G.E :
               LET after == topology_discount(AddEdge(args.G, e), args.M)
               IN  /\ after <= ret.v
                   /\ ret.v > ONE \div 100 => after < ret.v

C6_Witness ==
  /\ Done("topology_discount")
  /\ args.M = 3 /\ args.G.n = 3 /\ Cardinality(args.G.E) = 2
  /\ ret.v > ONE \div 100
  /\ \E e \in Pairs(3) \ args.G.E :
       topology_discount(AddEdge(args.G, e), 3) = ONE \div 100

(* C7: bootstrap_one_sided_test returns a p_value that is the fraction of the *)
(* n_bootstrap resampled statistics >= observed_stat, lies in [0,1], and      *)
(* rejects exactly when p_value < alpha.  Stated for a non-empty series.      *)
C7_PValueFraction ==
  (Done("bootstrap_one_sided_test") /\ Len(args.series) > 0)
  => /\ IsOk(ret)
     /\ ~ret.v.p_nan
     /\ 0 <= ret.v.p_value /\ ret.v.p_value <= ONE
     /\ Len(loc.results) = args.n_bootstrap
     /\ ret.v.p_value
          = (ONE * Cardinality({ k \in 1..Len(loc.results) :
                                   loc.results[k] >= args.observed_stat }))
              \div args.n_bootstrap
     /\ ret.v.reject_null <=> (ret.v.p_value < args.alpha)

(* C8: an operation with a method/statistic selector ends in an               *)
(* invalid-argument error whenever the selector is not a recognized value.    *)
(* Stated where nothing else fails: cyvcf2 present, a non-empty series.       *)
C8_SelectorRejected ==
  /\ (Done("compute_correlation_matrix") /\ args.HAS_CYVCF2
        /\ args.method \notin {"jaccard", "kappa"})
     => ret.err = "ValueError"
  /\ (Done("circular_block_bootstrap") /\ Len(args.series) > 0
        /\ args.statistic \notin {"mean", "var"})
     => ret.err = "ValueError"

\* the candidates whose loss is the least of those evaluated so far
Minimizers(seen) ==
  { k \in 1..Len(seen) : \A j \in 1..Len(seen) : seen[k][2] <= seen[j][2] }

(* C10: without odd enforcement and with M_min <= M_max the search visits     *)
(* M_min..M_max in ascending order, keeps after each iteration the first      *)
(* minimizer of L_total among the candidates seen, and returns it.            *)
C10_FirstMinimizer ==
  (op = "optimize_ensemble_size" /\ ~args.enforce_odd
     /\ args.cfg.M_min <= args.cfg.M_max /\ (pc = "done" => IsOk(ret)))
  => LET seen == loc.seen
         n    == Len(seen)
     IN  /\ \A k \in 1..n : seen[k][1] = args.cfg.M_min + k - 1
         /\ loc.M = args.cfg.M_min + n
         /\ n > 0 =>
              /\ ~loc.best_inf
              /\ \E k \in Minimizers(seen) :
                   /\ seen[k] = <<loc.best_M, loc.best_loss>>
                   /\ \A j \in Minimizers(seen) : k <= j
         /\ pc = "done" =>
              /\ n = args.cfg.M_max - args.cfg.M_min + 1
              /\ ret.v = loc.best_M

\* a finished search in which a later candidate ties with the minimizer
C10_Witness ==
  /\ Done("optimize_ensemble_size") /\ IsOk(ret) /\ ~args.enforce_odd
  /\ args.cfg.M_min < args.cfg.M_max
  /\ Cardinality(Minimizers(loc.seen)) > 1
  /\ \E k \in Minimizers(loc.seen) : loc.seen[k][1] = ret.v

====
